---------------------------- MODULE Spec2Model ----------------------------
(***************************************************************************)
(* Conversation state management of the MERE backend                       *)
(* (backend/conversation_state.py, backend/enhanced_nlu_service.py).       *)
(*                                                                         *)
(* The registry ConversationStateGraph.active_conversations maps a         *)
(* conversation id to a ConversationContext.  Every public method of the   *)
(* registry, and EnhancedNLUService.process_with_context on top of it, is  *)
(* one action.  Python values are modelled as follows:                     *)
(*   - None is the string "None";                                          *)
(*   - a confidence is a fixed-point number of hundredths (0.9 is 90);     *)
(*   - a dict is the sequence of its items in insertion order;             *)
(*   - an entity value is a record tagged with its Python type;            *)
(*   - datetime.now() is a logical clock that advances with every call of  *)
(*     an operation;                                                       *)
(*   - the Korean vocabulary tokens are written in romanised form, since   *)
(*     the module is ASCII (chwiso, ne, aniyo, maja, teullyeo, hwagin).    *)
(***************************************************************************)
EXTENDS Integers, Sequences, FiniteSets, TLC

VARIABLES
    active_conversations,   \* ConversationStateGraph.active_conversations
    now,                    \* the last value datetime.now() returned
    result                  \* outcome of the last call: what it returned or raised

vars == <<active_conversations, now, result>>

-----------------------------------------------------------------------------
(* Bounds of the model *)

\* number of uuids start_conversation can draw
MaxConversations == 2
\* number of calls in a run (each call advances the clock)
MaxClock == 3
\* length of the texts given to resolve_references
MaxTextLen == 3

-----------------------------------------------------------------------------
(* Python values *)

None == "None"

\* a truthy intent that is not a str (its .lower() raises AttributeError)
NotAString == "<int>"

StrValue(s) == [type |-> "str", value |-> s]
IntValue(s) == [type |-> "int", value |-> s]
Item(k, v) == [key |-> k, value |-> v]

\* entities arguments: dicts, and None for a payload that is not a map
Dict(items) == [ismap |-> TRUE, items |-> items]
NotADict == [ismap |-> FALSE, items |-> <<>>]

-----------------------------------------------------------------------------
(* class ConversationState *)

PARSING == "parsing"
VALIDATION == "validation"
CONFIRMATION == "confirmation"
EXECUTION == "execution"
RESPONSE == "response"
INTERRUPTED == "interrupted"
COMPLETED == "completed"

ConversationState ==
    {PARSING, VALIDATION, CONFIRMATION, EXECUTION, RESPONSE, INTERRUPTED, COMPLETED}

-----------------------------------------------------------------------------
(* Inputs of the calls *)

\* _requires_confirmation: `state.confidence < 0.9`
CONFIRMATION_THRESHOLD == 90

\* the confidence above which _route_from_parsing goes on to validation; the
\* graph it belongs to is compiled and never invoked
CONFIDENCE_FLOOR == 70

\* conversation ids: the uuids that can be drawn, and "unknown-id", never drawn
Uuids == 1..MaxConversations
UnknownId == MaxConversations + 1
ConversationIds == Uuids \cup {UnknownId}

UserIds == {"u1", "u2"}

\* a turn: the (intent, entities, confidence) the caller passes
Turn(intent, entities, confidence) ==
    [intent |-> intent, entities |-> entities, confidence |-> confidence]

Intents ==
    {"cancel", "CANCEL", "delete_memo", "create_memo", "yes", "aniyo", NotAString}

Confidences == {50, 80, 90, 100}

EntityPayloads ==
    { Dict(<<>>),
      Dict(<<Item("content", StrValue("buy milk"))>>),
      Dict(<<Item("memo_id", IntValue("42")),
             Item("content", StrValue("write report"))>>),
      NotADict }

\* the turns of Spec: every intent at every confidence, with an empty
\* payload or one that is not a map
Turns ==
    {Turn(i, e, c) : i \in Intents, e \in {Dict(<<>>), NotADict}, c \in Confidences}

\* the turns of SpecEntities: every payload, with an intent of each outcome
\* of the transition (executed, interrupted, failed)
EntityTurns ==
    {Turn(i, e, CONFIRMATION_THRESHOLD) :
        i \in {"create_memo", "CANCEL", NotAString}, e \in EntityPayloads}

-----------------------------------------------------------------------------
(* str.lower() on the intents of the model *)

lower(s) ==
    CASE s = "CANCEL" -> "cancel"
      [] s = "YES" -> "yes"
      [] OTHER -> s

(* dict.update(other): a key already present keeps its position and takes  *)
(* the new value, a new key is appended                                    *)
DictSet(d, k, v) ==
    IF \E i \in 1..Len(d) : d[i].key = k
    THEN [i \in 1..Len(d) |-> IF d[i].key = k THEN Item(k, v) ELSE d[i]]
    ELSE Append(d, Item(k, v))

\* a merge that replaces the stored dict by the payload
update_replaces(d, other) == other

RECURSIVE update(_, _)
update(d, other) ==
    IF other = <<>> THEN d
    ELSE update(DictSet(d, other[1].key, other[1].value), Tail(other))

Keys(d) == {d[i].key : i \in 1..Len(d)}
Get(d, k) == d[CHOOSE i \in 1..Len(d) : d[i].key = k].value

-----------------------------------------------------------------------------
(* ConversationStateGraph._is_interruption *)

interruption_intents ==
    {"cancel", "stop", "no", "abort", "nevermind", "forget_it", "chwiso"}

\* the truth value of `not state.intent`
Falsy(intent) == intent = None \/ intent = ""

\* TRUE when evaluating _is_interruption raises (AttributeError on .lower())
is_interruption_raises(intent) == ~Falsy(intent) /\ intent = NotAString

\* a comparison that forgets .lower()
is_interruption_exact(intent) ==
    IF Falsy(intent) THEN FALSE ELSE intent \in interruption_intents

is_interruption(intent) ==
    IF Falsy(intent) THEN FALSE ELSE lower(intent) \in interruption_intents

(* ConversationStateGraph._requires_confirmation *)

confirmation_required_intents ==
    {"delete_memo", "delete_todo", "cancel_event", "delete_all", "clear_data"}

\* a policy that gates on the confidence alone
requires_confirmation_by_confidence(intent, confidence) ==
    confidence < CONFIRMATION_THRESHOLD

\* a policy whose threshold is inclusive
requires_confirmation_inclusive(intent, confidence) ==
    intent \in confirmation_required_intents \/ confidence <= CONFIRMATION_THRESHOLD

requires_confirmation(intent, confidence) ==
    IF intent \in confirmation_required_intents THEN TRUE
    ELSE IF confidence < CONFIRMATION_THRESHOLD THEN TRUE
    ELSE FALSE

-----------------------------------------------------------------------------
(* ConversationContext, with __post_init__ *)

ConversationContext(user_id, conversation_id, current_state, entities, t) ==
    [ user_id |-> user_id,
      conversation_id |-> conversation_id,
      current_state |-> current_state,
      intent |-> None,
      entities |-> entities,
      confidence |-> 0,
      previous_context |-> None,
      interruption_reason |-> None,
      created_at |-> t,
      updated_at |-> t ]

\* what a call left behind
Returned(op, cid, value) ==
    [op |-> op, conversation_id |-> cid, raised |-> None, returned |-> value]
Raised(op, cid, exc) ==
    [op |-> op, conversation_id |-> cid, raised |-> exc, returned |-> {}]

Init ==
    /\ active_conversations = <<>>
    /\ now = 0
    /\ result = Returned("__init__", UnknownId, {})

-----------------------------------------------------------------------------
(* ConversationStateGraph.start_conversation *)

\* initial_context: None, the default; no caller of the repository passes one
InitialContexts == {NotADict}

\* str(uuid.uuid4()): an id no conversation has.  Ids are opaque tokens, so
\* the unused ids are interchangeable and the smallest stands for any of them.
uuid4(conversations) ==
    CHOOSE id \in Uuids \ DOMAIN conversations :
        \A other \in Uuids \ DOMAIN conversations : id <= other

\* a registry rebuilt around the new context
Started_alone(conversations, user_id, initial_context, conversation_id, t) ==
    [id \in {conversation_id} |->
        ConversationContext(user_id, conversation_id, PARSING,
                            initial_context.items, t)]

\* the registry after start_conversation stored the new context
Started(conversations, user_id, initial_context, conversation_id, t) ==
    [id \in DOMAIN conversations \cup {conversation_id} |->
        IF id = conversation_id
        THEN ConversationContext(user_id, conversation_id, PARSING,
                                 initial_context.items, t)
        ELSE conversations[id]]

start_conversation(user_id, initial_context) ==
    /\ now < MaxClock
    /\ Uuids \ DOMAIN active_conversations # {}
    /\ now' = now + 1
    /\ LET conversation_id == uuid4(active_conversations)
       IN /\ active_conversations' =
                Started(active_conversations, user_id, initial_context,
                        conversation_id, now')
          /\ result' = Returned("start_conversation", conversation_id,
                                {conversation_id})

-----------------------------------------------------------------------------
(* ConversationStateGraph.process_input *)

\* a resolver that reads the state the turn enters from: in Confirmation an
\* affirmative reply executes whatever its confidence
Resolve_gated(context, t) ==
    IF is_interruption_raises(context.intent)
    THEN [context EXCEPT !.current_state = INTERRUPTED,
                         !.interruption_reason = "processing_error: AttributeError"]
    ELSE IF is_interruption(context.intent)
    THEN [context EXCEPT !.current_state = INTERRUPTED,
                         !.interruption_reason = "user_cancel",
                         !.updated_at = t]
    ELSE IF /\ context.current_state = CONFIRMATION
            /\ lower(context.intent) \in {"yes", "ne", "maja", "hwagin"}
    THEN [context EXCEPT !.current_state = EXECUTION, !.updated_at = t]
    ELSE IF requires_confirmation(context.intent, context.confidence)
    THEN [context EXCEPT !.current_state = CONFIRMATION, !.updated_at = t]
    ELSE [context EXCEPT !.current_state = EXECUTION, !.updated_at = t]

\* the resolver with the confidence floor of _route_from_parsing: a turn at
\* or below 0.7 ends without a transition
Resolve_with_floor(context, t) ==
    IF is_interruption_raises(context.intent)
    THEN [context EXCEPT !.current_state = INTERRUPTED,
                         !.interruption_reason = "processing_error: AttributeError"]
    ELSE IF context.confidence <= CONFIDENCE_FLOOR
    THEN [context EXCEPT !.updated_at = t]
    ELSE IF is_interruption(context.intent)
    THEN [context EXCEPT !.current_state = INTERRUPTED,
                         !.interruption_reason = "user_cancel",
                         !.updated_at = t]
    ELSE IF requires_confirmation(context.intent, context.confidence)
    THEN [context EXCEPT !.current_state = CONFIRMATION, !.updated_at = t]
    ELSE [context EXCEPT !.current_state = EXECUTION, !.updated_at = t]

\* the rule-based transition inside the try block, and its except clause
Resolve(context, t) ==
    IF is_interruption_raises(context.intent)
    THEN [context EXCEPT !.current_state = INTERRUPTED,
                         !.interruption_reason = "processing_error: AttributeError"]
    ELSE IF is_interruption(context.intent)
    THEN [context EXCEPT !.current_state = INTERRUPTED,
                         !.interruption_reason = "user_cancel",
                         !.updated_at = t]
    ELSE IF requires_confirmation(context.intent, context.confidence)
    THEN [context EXCEPT !.current_state = CONFIRMATION, !.updated_at = t]
    ELSE [context EXCEPT !.current_state = EXECUTION, !.updated_at = t]

\* the statements of process_input after the lookup, on one context
ProcessContext(context, intent, entities, confidence, t) ==
    Resolve([context EXCEPT !.intent = intent,
                            !.entities = update(context.entities, entities.items),
                            !.confidence = confidence], t)

\* the exception process_input raises, or None
ProcessInputRaises(conversations, conversation_id, entities) ==
    IF conversation_id \notin DOMAIN conversations
    THEN "ValueError"   \* raise ValueError(f"Conversation {conversation_id} not found")
    ELSE IF ~entities.ismap
    THEN "TypeError"    \* context.entities.update(entities), outside the try block
    ELSE None

\* a registry that keeps one context per user: the turn reaches every
\* conversation of the user who owns conversation_id
Processed_per_user(conversations, conversation_id, intent, entities, confidence, t) ==
    IF conversation_id \notin DOMAIN conversations
    THEN conversations
    ELSE [id \in DOMAIN conversations |->
            IF conversations[id].user_id # conversations[conversation_id].user_id
            THEN conversations[id]
            ELSE IF ~entities.ismap
            THEN [conversations[id] EXCEPT !.intent = intent]
            ELSE ProcessContext(conversations[id], intent, entities, confidence, t)]

\* a lookup that creates the conversation it does not find
Processed_get_or_create(conversations, conversation_id, intent, entities, confidence, t) ==
    LET found ==
            IF conversation_id \in DOMAIN conversations THEN conversations
            ELSE Started(conversations, "u1", NotADict, conversation_id, t)
    IN IF ~entities.ismap
       THEN [found EXCEPT ![conversation_id].intent = intent]
       ELSE [found EXCEPT ![conversation_id] =
                ProcessContext(@, intent, entities, confidence, t)]

\* the registry after process_input returned or raised
Processed(conversations, conversation_id, intent, entities, confidence, t) ==
    IF conversation_id \notin DOMAIN conversations
    THEN conversations
    ELSE IF ~entities.ismap
    THEN \* update() raises after context.intent was assigned
         [conversations EXCEPT ![conversation_id].intent = intent]
    ELSE [conversations EXCEPT ![conversation_id] =
             ProcessContext(@, intent, entities, confidence, t)]

process_input(conversation_id, intent, entities, confidence) ==
    /\ now < MaxClock
    /\ now' = now + 1
    /\ active_conversations' =
          Processed(active_conversations, conversation_id, intent, entities,
                    confidence, now')
    /\ result' =
          LET exc == ProcessInputRaises(active_conversations, conversation_id,
                                        entities)
          IN IF exc # None
             THEN Raised("process_input", conversation_id, exc)
             ELSE Returned("process_input", conversation_id, {conversation_id})

-----------------------------------------------------------------------------
(* ConversationStateGraph.get_conversation *)

get_conversation(conversation_id) ==
    /\ now < MaxClock
    /\ now' = now + 1
    /\ UNCHANGED active_conversations
    /\ result' = Returned("get_conversation", conversation_id,
                          {conversation_id} \cap DOMAIN active_conversations)

(* ConversationStateGraph.end_conversation *)

EndContext(context) == [context EXCEPT !.current_state = COMPLETED]

\* end_conversation with the deletion it keeps commented out
Ended_deletes(conversations, conversation_id) ==
    [id \in DOMAIN conversations \ {conversation_id} |-> conversations[id]]

Ended(conversations, conversation_id) ==
    IF conversation_id \in DOMAIN conversations
    THEN [conversations EXCEPT ![conversation_id] = EndContext(@)]
    ELSE conversations

\* an end_conversation without the membership test: the lookup raises KeyError
end_conversation_unguarded(conversation_id) ==
    /\ now < MaxClock
    /\ now' = now + 1
    /\ active_conversations' = Ended(active_conversations, conversation_id)
    /\ result' =
          IF conversation_id \in DOMAIN active_conversations
          THEN Returned("end_conversation", conversation_id, {})
          ELSE Raised("end_conversation", conversation_id, "KeyError")

\* an end_conversation that also stamps updated_at
end_conversation_stamps(conversation_id) ==
    /\ now < MaxClock
    /\ now' = now + 1
    /\ active_conversations' =
          IF conversation_id \in DOMAIN active_conversations
          THEN [active_conversations EXCEPT ![conversation_id] =
                   [EndContext(@) EXCEPT !.updated_at = now']]
          ELSE active_conversations
    /\ result' = Returned("end_conversation", conversation_id, {})

end_conversation(conversation_id) ==
    /\ now < MaxClock
    /\ now' = now + 1
    /\ active_conversations' = Ended(active_conversations, conversation_id)
    /\ result' = Returned("end_conversation", conversation_id, {})

(* ConversationStateGraph.get_active_conversations *)

\* a filter that keeps only the conversations still taking turns
ActiveIds_running(conversations) ==
    {k \in DOMAIN conversations :
        conversations[k].current_state \notin {COMPLETED, INTERRUPTED}}

ActiveIds(conversations) ==
    {k \in DOMAIN conversations : conversations[k].current_state # COMPLETED}

get_active_conversations ==
    /\ now < MaxClock
    /\ now' = now + 1
    /\ UNCHANGED active_conversations
    /\ result' = Returned("get_active_conversations", UnknownId,
                          ActiveIds(active_conversations))

-----------------------------------------------------------------------------
(* EnhancedNLUService._build_context_data *)

\* a builder that hands out the default bundle whatever the context
build_context_data_default(context) ==
    [ previous_intent |-> None,
      previous_entities |-> <<>>,
      current_state |-> "initial",
      user_context |-> <<>> ]

\* context is {} for None and {conversation} otherwise; the function reads
\* the context and assigns nothing
build_context_data(context) ==
    IF context = {}
    THEN [ previous_intent |-> None,
           previous_entities |-> <<>>,
           current_state |-> "initial",
           user_context |-> <<>> ]
    ELSE LET c == CHOOSE c \in context : TRUE
         IN [ previous_intent |-> c.intent,
              previous_entities |-> c.entities,
              current_state |-> c.current_state,
              \* context.previous_context or {}
              user_context |-> IF c.previous_context = None THEN <<>>
                               ELSE c.previous_context ]

\* the call process_with_context makes with what get_conversation returned
build_context_data_of(conversation_id) ==
    /\ now < MaxClock
    /\ now' = now + 1
    /\ UNCHANGED active_conversations
    /\ result' = Returned("_build_context_data", conversation_id,
                    {build_context_data(
                        {active_conversations[id] :
                            id \in {conversation_id} \cap DOMAIN active_conversations})})

(* EnhancedNLUService._handle_confirmation_response *)

confirmation_mapping ==
    [ token \in {"yes", "no", "ne", "aniyo", "maja", "teullyeo", "hwagin", "chwiso"} |->
        IF token \in {"yes", "ne", "maja", "hwagin"} THEN "confirm" ELSE "reject" ]

CONFIDENCE_BOOST == 10
MAX_CONFIDENCE == 100

min(a, b) == IF a <= b THEN a ELSE b

\* a boost without the cap
handle_confirmation_response_uncapped(r) ==
    LET intent_name == lower(r.intent)
    IN IF intent_name \in DOMAIN confirmation_mapping
       THEN [r EXCEPT !.intent = confirmation_mapping[intent_name],
                      !.confidence = r.confidence + CONFIDENCE_BOOST]
       ELSE r

handle_confirmation_response(r) ==
    LET intent_name == lower(r.intent)
    IN IF intent_name \in DOMAIN confirmation_mapping
       THEN [r EXCEPT !.intent = confirmation_mapping[intent_name],
                      !.confidence = min(r.confidence + CONFIDENCE_BOOST,
                                         MAX_CONFIDENCE)]
       ELSE r

(* EnhancedNLUService._extract_completion_entities.  A text is a sequence   *)
(* of characters: the digit 1, and the Hangul syllables romanised: s for   *)
(* si, b for bun, w for wol, d for il, N for nae, O L for o-neul, M R for  *)
(* mo-re                                                                   *)

\* the names the module binds when it is imported
module_names ==
    {"os", "json", "logging", "Dict", "List", "Optional", "Tuple", "Any",
     "OpenAI", "dataclass", "datetime", "timedelta", "ConversationContext",
     "ConversationState", "get_state_manager", "GPT5NLUService", "Intent",
     "NLUResult", "logger"}

\* evaluating `re.findall` in the first pass of the loop, which every text
\* reaches: NameError unless the module binds re
extract_completion_entities_raises ==
    IF "re" \in module_names THEN None ELSE "NameError"

Digits == {"1"}

\* the leftmost match of \d+ followed by one of the suffixes, as the pair of
\* its first and last digit; empty when nothing matches
FirstDigitRun(text, suffixes) ==
    LET runs == {run \in (1..Len(text)) \X (1..Len(text)) :
                    /\ run[1] <= run[2]
                    /\ \A k \in run[1]..run[2] : text[k] \in Digits
                    /\ run[2] < Len(text)
                    /\ text[run[2] + 1] \in suffixes}
    IN {run \in runs : \A other \in runs : run[1] <= other[1]}

\* the leftmost occurrence of one of the words, as the word; empty when none
FirstWord(text, words) ==
    LET hits == {hit \in (1..Len(text)) \X words :
                    /\ hit[1] + Len(hit[2]) - 1 <= Len(text)
                    /\ SubSeq(text, hit[1], hit[1] + Len(hit[2]) - 1) = hit[2]}
    IN {hit[2] : hit \in {h \in hits : \A other \in hits : h[1] <= other[1]}}

\* the entities of the four time patterns, in the order of time_patterns
extract_completion_entities(text) ==
    LET hour == FirstDigitRun(text, {"s"})
        minute == FirstDigitRun(text, {"b"})
        relative == FirstWord(text, {<<"N", "d">>, <<"O", "L">>, <<"M", "R">>})
        specific == FirstDigitRun(text, {"w", "d"})
        Group(runs, extra) ==
            LET run == CHOOSE r \in runs : TRUE
            IN SubSeq(text, run[1], run[2] + extra)
    IN (IF hour = {} THEN <<>>
        ELSE <<Item("time_hour", StrValue(Group(hour, 0)))>>)
       \o (IF minute = {} THEN <<>>
           ELSE <<Item("time_minute", StrValue(Group(minute, 0)))>>)
       \o (IF relative = {} THEN <<>>
           ELSE <<Item("date_relative", StrValue(CHOOSE w \in relative : TRUE))>>)
       \o (IF specific = {} THEN <<>>
           ELSE <<Item("date_specific", StrValue(Group(specific, 1)))>>)

(* EnhancedNLUService._handle_validation_response *)

\* the truth value of `not result.entities`
NoEntities(entities) == ~entities.ismap \/ entities.items = <<>>

\* _extract_completion_entities calls re.findall, and the module does not
\* import re: the completion branch raises NameError
handle_validation_response_raises(r, context) ==
    /\ ~Falsy(context.intent)
    /\ NoEntities(r.entities)
    /\ extract_completion_entities_raises # None

handle_validation_response(r, context) == r

(* EnhancedNLUService._is_interruption_intent *)

interruption_intent_names ==
    {"cancel", "stop", "abort", "quit", "exit", "chwiso", "jungdan", "geuman",
     "nagagi"}

is_interruption_intent(intent) == lower(intent) \in interruption_intent_names

(* EnhancedNLUService._enhance_with_state_logic *)

enhance_with_state_logic_raises(r, context) ==
    IF context.current_state = VALIDATION
          /\ handle_validation_response_raises(r, context)
    THEN "NameError"
    ELSE IF r.intent = NotAString
    THEN "AttributeError"   \* intent.lower() in _is_interruption_intent
    ELSE None

enhance_with_state_logic(r, context) ==
    LET handled ==
            IF context.current_state = CONFIRMATION
            THEN handle_confirmation_response(r)
            ELSE IF context.current_state = VALIDATION
            THEN handle_validation_response(r, context)
            ELSE r
    IN IF is_interruption_intent(handled.intent)
       THEN [handled EXCEPT !.requires_confirmation = TRUE]
       ELSE handled

(* EnhancedNLUService.process_with_context *)

\* what _process_with_context_prompt returns: the answer of the language
\* model, or of the basic NLU it falls back to (which sets
\* requires_confirmation to False)
NLUResult(turn) ==
    [intent |-> turn.intent, confidence |-> turn.confidence,
     entities |-> turn.entities, requires_confirmation |-> FALSE]

\* the fields of ContextualNLUResult the state logic reads or writes; text,
\* context_entities and previous_intent are copied from the inputs as they are
ContextualNLUResult(nlu, conversation_id) ==
    [ intent |-> nlu.intent,
      confidence |-> nlu.confidence,
      entities |-> nlu.entities,
      conversation_id |-> conversation_id,
      requires_confirmation |-> nlu.requires_confirmation ]

\* conversation_id is {} for None and {id} for an id.  The clock advances
\* with each registry call that reads it: once, or twice when the
\* conversation is started here.  The outcome of the call: the clock and the
\* registry it leaves, and what it returns or raises.
ProcessedWithContext(conversations, t0, user_id, conversation_id, nlu) ==
    LET fresh == conversation_id = {}
        cid == IF fresh THEN uuid4(conversations)
               ELSE CHOOSE id \in conversation_id : TRUE
        created == t0 + 1
        started == IF fresh
                   THEN Started(conversations, user_id, NotADict, cid, created)
                   ELSE conversations
        \* context = self.state_manager.get_conversation(conversation_id)
        known == cid \in DOMAIN started
        t == IF fresh THEN created + 1 ELSE created
        contextual_result == ContextualNLUResult(nlu, cid)
        processed ==
            IF known
            THEN Processed(started, cid, nlu.intent, nlu.entities,
                           nlu.confidence, t)
            ELSE started
        exc == IF ~known THEN None
               ELSE IF ProcessInputRaises(started, cid, nlu.entities) # None
               THEN ProcessInputRaises(started, cid, nlu.entities)
               ELSE enhance_with_state_logic_raises(contextual_result,
                                                    processed[cid])
    IN [ now |-> t,
         active_conversations |-> processed,
         result |->
             IF exc # None
             THEN Raised("process_with_context", cid, exc)
             ELSE Returned("process_with_context", cid,
                           IF known
                           THEN {enhance_with_state_logic(contextual_result,
                                                          processed[cid])}
                           ELSE {contextual_result}) ]

process_with_context(user_id, conversation_id, nlu) ==
    /\ conversation_id = {} => Uuids \ DOMAIN active_conversations # {}
    /\ now + (IF conversation_id = {} THEN 2 ELSE 1) <= MaxClock
    /\ \E out \in {ProcessedWithContext(active_conversations, now, user_id,
                                         conversation_id, nlu)} :
          /\ out.now <= MaxClock
          /\ now' = out.now
          /\ active_conversations' = out.active_conversations
          /\ result' = out.result

-----------------------------------------------------------------------------
(* EnhancedNLUService.resolve_references.  A text is a sequence of          *)
(* characters; the Hangul syllables are romanised: g, t, e for the          *)
(* syllables of geu-geot and geu-geo, b m for bang-geum, a k for a-kka,     *)
(* i and j for i and jeo                                                    *)

\* the keys of self.reference_patterns, in insertion order
reference_patterns ==
    << <<"g", "t">>, <<"g", "e">>, <<"b", "m">>, <<"a", "k">>,
       <<"g">>, <<"i">>, <<"j">> >>

\* str.find: the first index at which old occurs in s, 0 when it does not
find(s, old) ==
    LET hits == {i \in 1..(Len(s) - Len(old) + 1) :
                    SubSeq(s, i, i + Len(old) - 1) = old}
    IN IF hits = {} THEN 0
       ELSE CHOOSE i \in hits : \A j \in hits : i <= j

\* str.replace(old, new, 1)
replace_first(s, old, new) ==
    LET i == find(s, old)
    IN IF i = 0 THEN s
       ELSE SubSeq(s, 1, i - 1) \o new \o SubSeq(s, i + Len(old), Len(s))

\* str.replace(old, new): every occurrence, left to right, without overlap
RECURSIVE replace(_, _, _)
replace(s, old, new) ==
    LET i == find(s, old)
    IN IF i = 0 THEN s
       ELSE SubSeq(s, 1, i - 1) \o new
               \o replace(SubSeq(s, i + Len(old), Len(s)), old, new)

\* the first value of entities.items() that is a str, as a one-element
\* sequence; empty when there is none
first_str_value(entities) ==
    LET strs == {i \in 1..Len(entities) : entities[i].value.type = "str"}
    IN IF strs = {} THEN <<>>
       ELSE <<entities[CHOOSE i \in strs : \A j \in strs : i <= j].value.value>>

\* the loop over reference_patterns from the k-th key on
RECURSIVE resolve_from(_, _, _, _)
resolve_from(k, text, resolved_text, entities) ==
    IF k > Len(reference_patterns) THEN resolved_text
    ELSE LET reference == reference_patterns[k]
             found == first_str_value(entities)
             next == IF find(text, reference) # 0 /\ found # <<>>
                     THEN replace(resolved_text, reference, found[1])
                     ELSE resolved_text
         IN resolve_from(k + 1, text, next, entities)

\* context is {} for None and {conversation} otherwise
resolve_references(text, context) ==
    IF context = {} \/ (\A c \in context : c.entities = <<>>)
    THEN text
    ELSE resolve_from(1, text, text, (CHOOSE c \in context : TRUE).entities)

(* IntentActionMapper.execute_intent *)

\* async def execute_intent(self, user_id, nlu_result): both are required
execute_intent_parameters == {"user_id", "nlu_result"}

\* binding a call that passes these keyword arguments: TypeError unless they
\* name the parameters, all of them
execute_intent_raises(keywords) ==
    IF keywords = execute_intent_parameters THEN None ELSE "TypeError"

\* the one handler execute_intent runs for the intent
execute_intent(user_id, intent_name) ==
    [handler |-> intent_name, user_id |-> user_id]

(* _get_possible_transitions: state_info.state_transitions of the endpoint *)

get_possible_transitions(current_state) ==
    CASE current_state = PARSING -> {"validation", "interrupted", "end"}
      [] current_state = VALIDATION -> {"confirmation", "execution", "interrupted"}
      [] current_state = CONFIRMATION ->
             {"execution", "validation", "interrupted", "end"}
      [] current_state = EXECUTION -> {"response"}
      [] current_state = RESPONSE -> {"end"}
      [] current_state = INTERRUPTED -> {"end"}
      [] OTHER -> {}

(* process_voice_command_stateful, POST /api/voice/process_stateful *)

\* intent=..., entities=..., user_id=...: the keywords of the call it makes
dispatch_keywords == {"intent", "entities", "user_id"}

\* supported: the suffix of the uploaded file is an audio format; text: what
\* the transcription heard.  Every exception inside the handler leaves it as
\* an HTTPException.
process_voice_command_stateful(supported, text, user_id, conversation_id, nlu) ==
    LET op == "process_voice_command_stateful"
    IN IF ~supported
       THEN /\ now < MaxClock
            /\ now' = now + 1
            /\ UNCHANGED active_conversations
            /\ result' = Raised(op, UnknownId, "HTTPException")
       ELSE IF text = ""
       THEN /\ now < MaxClock
            /\ now' = now + 1
            /\ UNCHANGED active_conversations
            /\ result' = Returned(op, UnknownId,
                                  {[success |-> FALSE, error |-> "No speech detected"]})
       ELSE /\ conversation_id = {} => Uuids \ DOMAIN active_conversations # {}
            /\ now + (IF conversation_id = {} THEN 2 ELSE 1) <= MaxClock
            /\ \E out \in {ProcessedWithContext(active_conversations, now, user_id,
                                                conversation_id, nlu)} :
                  LET cid == out.result.conversation_id
                      contextual_nlu == CHOOSE r \in out.result.returned : TRUE
                      \* context = state_manager.get_conversation(
                      \*               contextual_nlu.conversation_id)
                      found == cid \in DOMAIN out.active_conversations
                      context == out.active_conversations[cid]
                      dispatched == found /\ context.current_state = EXECUTION
                      exc == IF out.result.raised # None THEN out.result.raised
                             ELSE IF dispatched
                             THEN execute_intent_raises(dispatch_keywords)
                             ELSE None
                  IN /\ out.now <= MaxClock
                     /\ now' = out.now
                     /\ active_conversations' = out.active_conversations
                     /\ result' =
                           IF exc # None
                           THEN Raised(op, cid, "HTTPException")
                           ELSE Returned(op, cid,
                                   {[ success |-> TRUE,
                                      conversation_state |->
                                          IF found THEN context.current_state
                                          ELSE "unknown",
                                      intent |-> contextual_nlu.intent,
                                      state_transitions |->
                                          IF found
                                          THEN get_possible_transitions(
                                                   context.current_state)
                                          ELSE {},
                                      business |->
                                          IF dispatched
                                          THEN <<execute_intent(user_id,
                                                                contextual_nlu.intent)>>
                                          ELSE <<>> ]})

-----------------------------------------------------------------------------
(* The calls of Spec *)

StartConversation ==
    \E u \in UserIds, ic \in InitialContexts : start_conversation(u, ic)

ProcessInput ==
    \E id \in ConversationIds, turn \in Turns :
        process_input(id, turn.intent, turn.entities, turn.confidence)

GetConversation == \E id \in ConversationIds : get_conversation(id)

EndConversation == \E id \in ConversationIds : end_conversation(id)

GetActiveConversations == get_active_conversations

\* user_id is read only when the call starts the conversation
ProcessWithContext ==
    \/ \E u \in UserIds, turn \in Turns :
          process_with_context(u, {}, NLUResult(turn))
    \/ \E id \in ConversationIds, turn \in Turns :
          process_with_context(CHOOSE u \in UserIds : TRUE, {id}, NLUResult(turn))

Next ==
    \/ StartConversation
    \/ ProcessInput
    \/ GetConversation
    \/ EndConversation
    \/ GetActiveConversations
    \/ ProcessWithContext

Spec == Init /\ [][Next]_vars

(* The calls of SpecEntities: the same operations, on the turns that vary   *)
(* the entity payload                                                      *)

ProcessInputEntities ==
    \E id \in ConversationIds, turn \in EntityTurns :
        process_input(id, turn.intent, turn.entities, turn.confidence)

ProcessWithContextEntities ==
    \/ \E u \in UserIds, turn \in EntityTurns :
          process_with_context(u, {}, NLUResult(turn))
    \/ \E id \in ConversationIds, turn \in EntityTurns :
          process_with_context(CHOOSE u \in UserIds : TRUE, {id}, NLUResult(turn))

NextEntities ==
    \/ StartConversation
    \/ ProcessInputEntities
    \/ GetConversation
    \/ EndConversation
    \/ GetActiveConversations
    \/ ProcessWithContextEntities

SpecEntities == Init /\ [][NextEntities]_vars

-----------------------------------------------------------------------------
(* The calls of SpecVoice: requests to the stateful voice endpoint, whose   *)
(* turns are what the understanding step hands on (a named intent, a map   *)
(* of entities), beside the session calls of the socket handlers           *)

VoiceTurns ==
    {turn \in Turns : turn.intent # NotAString /\ turn.entities.ismap}

ProcessVoiceCommandStateful ==
    \/ \E supported \in BOOLEAN :
          process_voice_command_stateful(supported, "", CHOOSE u \in UserIds : TRUE,
                                         {}, NLUResult(CHOOSE turn \in VoiceTurns : TRUE))
    \/ \E u \in UserIds, turn \in VoiceTurns :
          process_voice_command_stateful(TRUE, "speech", u, {}, NLUResult(turn))
    \/ \E id \in ConversationIds, turn \in VoiceTurns :
          process_voice_command_stateful(TRUE, "speech", CHOOSE u \in UserIds : TRUE,
                                         {id}, NLUResult(turn))

NextVoice ==
    \/ StartConversation
    \/ EndConversation
    \/ ProcessVoiceCommandStateful

SpecVoice == Init /\ [][NextVoice]_vars

(* The calls of SpecMapper: _handle_confirmation_response applied to the   *)
(* results it can be given, beside the turns that store a confidence       *)

MapperIntents == {"yes", "YES", "hwagin", "aniyo", "chwiso", "cancel", "delete_memo"}

\* confidences in hundredths, those next to the cap among them
MapperConfidences == {0, 50, 90, 95, 100}

MapperResults ==
    {ContextualNLUResult(NLUResult(Turn(i, Dict(<<>>), c)), UnknownId) :
        i \in MapperIntents, c \in MapperConfidences}

HandleConfirmationResponse ==
    \E r \in MapperResults :
        /\ now < MaxClock
        /\ now' = now + 1
        /\ UNCHANGED active_conversations
        /\ result' = Returned("_handle_confirmation_response", UnknownId,
                              {[given |-> r,
                                mapped |-> handle_confirmation_response(r)]})

MapperTurns ==
    {Turn(i, Dict(<<>>), c) : i \in MapperIntents, c \in Confidences}

ProcessWithContextMapper ==
    \/ \E u \in UserIds, turn \in MapperTurns :
          process_with_context(u, {}, NLUResult(turn))
    \/ \E id \in ConversationIds, turn \in MapperTurns :
          process_with_context(CHOOSE u \in UserIds : TRUE, {id}, NLUResult(turn))

NextMapper ==
    \/ StartConversation
    \/ ProcessWithContextMapper
    \/ HandleConfirmationResponse

SpecMapper == Init /\ [][NextMapper]_vars

(* The calls of SpecTurns: the session calls with every turn of Spec and   *)
(* of SpecEntities, so that conversations differ in state and in entities, *)
(* and the snapshot the service takes of them                              *)

AllTurns == Turns \cup EntityTurns

ProcessInputAllTurns ==
    \E id \in ConversationIds, turn \in AllTurns :
        process_input(id, turn.intent, turn.entities, turn.confidence)

BuildContextData == \E id \in ConversationIds : build_context_data_of(id)

NextTurns ==
    \/ StartConversation
    \/ ProcessInputAllTurns
    \/ EndConversation
    \/ BuildContextData

SpecTurns == Init /\ [][NextTurns]_vars

(* The calls of SpecReferences: the text helpers of the service.           *)
(* resolve_references, applied to texts and to the contexts a conversation *)
(* can hand it                                                             *)

TextChars == {"g", "t", "i", "x"}

Texts == UNION {[1..n -> TextChars] : n \in 0..MaxTextLen}

\* no context, and conversations whose entities hold no value, no str, a
\* str, a str behind an int, two strs
ReferenceContexts ==
    {{}} \cup
    {{ConversationContext("u1", 1, EXECUTION, entities, 1)} :
        entities \in
           { <<>>,
             <<Item("memo_id", IntValue(42))>>,
             <<Item("content", StrValue(<<"m">>))>>,
             <<Item("memo_id", IntValue(42)), Item("content", StrValue(<<"m", "x">>))>>,
             <<Item("title", StrValue(<<"m">>)),
               Item("content", StrValue(<<"m", "x">>))>> }}

ResolveReferences ==
    \E text \in Texts, context \in ReferenceContexts :
        /\ now < MaxClock
        /\ now' = now + 1
        /\ UNCHANGED active_conversations
        /\ result' = Returned("resolve_references", UnknownId,
                              {[text |-> text, context |-> context,
                                resolved |-> resolve_references(text, context)]})

(* _extract_completion_entities and _handle_validation_response, applied  *)
(* to texts and to results with and without entities                       *)

CompletionChars == {"1", "s", "d", "N"}

CompletionTexts == UNION {[1..n -> CompletionChars] : n \in 0..MaxTextLen}

ExtractCompletionEntities ==
    \E text \in CompletionTexts :
        /\ now < MaxClock
        /\ now' = now + 1
        /\ UNCHANGED active_conversations
        /\ result' =
              IF extract_completion_entities_raises # None
              THEN Raised("_extract_completion_entities", UnknownId,
                          extract_completion_entities_raises)
              ELSE Returned("_extract_completion_entities", UnknownId,
                            {[text |-> text,
                              entities |-> extract_completion_entities(text)]})

ValidationResults ==
    {ContextualNLUResult(NLUResult(Turn("create_memo", e, CONFIRMATION_THRESHOLD)),
                         UnknownId) : e \in EntityPayloads}

\* a conversation before its first turn, and one that has an intent
ValidationContexts ==
    {[ConversationContext("u1", 1, PARSING, <<>>, 1) EXCEPT !.intent = i] :
        i \in {None, "create_memo"}}

HandleValidationResponse ==
    \E r \in ValidationResults, context \in ValidationContexts :
        /\ now < MaxClock
        /\ now' = now + 1
        /\ UNCHANGED active_conversations
        /\ result' =
              IF handle_validation_response_raises(r, context)
              THEN Raised("_handle_validation_response", UnknownId, "NameError")
              ELSE Returned("_handle_validation_response", UnknownId,
                            {handle_validation_response(r, context)})

NextReferences ==
    \/ ResolveReferences
    \/ ExtractCompletionEntities
    \/ HandleValidationResponse

SpecReferences == Init /\ [][NextReferences]_vars

(* Properties *)

Conversation(id) == active_conversations[id]

\* the last call was a turn of conversation id that process_input took past
\* its lookup and its merge: a process_input call, or the one that
\* process_with_context makes
LastTurn(id) ==
    /\ result.op \in {"process_input", "process_with_context"}
    /\ result.conversation_id = id
    /\ id \in DOMAIN active_conversations
    /\ result.raised \notin {"ValueError", "TypeError"}

\* the tokens confirmation_mapping maps to confirm
AffirmativeTokens ==
    {token \in DOMAIN confirmation_mapping : confirmation_mapping[token] = "confirm"}

\* C1: after every turn whose intent, lowercased, is in the interruption
\* vocabulary, the conversation is Interrupted with interruption_reason
\* "user_cancel", at every confidence and from every prior state (the
\* confirmation policy is not consulted: a low confidence does not lead to
\* Confirmation).
C1_InterruptionPreempts ==
    \A id \in DOMAIN active_conversations :
        (LastTurn(id) /\ lower(Conversation(id).intent) \in interruption_intents)
            => /\ Conversation(id).current_state = INTERRUPTED
               /\ Conversation(id).interruption_reason = "user_cancel"

\* an upper-case cancel at a confidence below the threshold, after an earlier call
C1_Witness ==
    \E id \in DOMAIN active_conversations :
        /\ LastTurn(id)
        /\ Conversation(id).intent = "CANCEL"
        /\ Conversation(id).confidence < CONFIRMATION_THRESHOLD
        /\ Conversation(id).current_state = INTERRUPTED
        /\ Conversation(id).interruption_reason = "user_cancel"
        /\ Conversation(id).updated_at > Conversation(id).created_at + 1

\* C2: after every turn whose intent is in the destructive set, the
\* conversation is in Confirmation (never Execution), at every confidence and
\* from every prior state.
C2_DestructiveGated ==
    \A id \in DOMAIN active_conversations :
        (LastTurn(id) /\ Conversation(id).intent \in confirmation_required_intents)
            => Conversation(id).current_state = CONFIRMATION

\* delete_memo at confidence 1.0
C2_Witness ==
    \E id \in DOMAIN active_conversations :
        /\ LastTurn(id)
        /\ Conversation(id).intent = "delete_memo"
        /\ Conversation(id).confidence = MAX_CONFIDENCE
        /\ Conversation(id).current_state = CONFIRMATION

C4_ConfirmationGating ==
    [][ \A id \in DOMAIN active_conversations :
          ( /\ Conversation(id).current_state = CONFIRMATION
            /\ LastTurn(id)'
            /\ Conversation(id)'.current_state = EXECUTION )
              => lower(Conversation(id)'.intent) \in AffirmativeTokens ]_vars

\* C5: a turn that enters from Confirmation with an affirmative reply whose
\* boosted confidence min(c + 0.1, 1.0) reaches 0.9 results in Execution.
C5_ConfirmedReplyExecutes ==
    [][ \A id \in DOMAIN active_conversations :
          ( /\ Conversation(id).current_state = CONFIRMATION
            /\ LastTurn(id)'
            /\ lower(Conversation(id)'.intent) \in AffirmativeTokens
            /\ min(Conversation(id)'.confidence + CONFIDENCE_BOOST, MAX_CONFIDENCE)
                  >= CONFIRMATION_THRESHOLD )
              => Conversation(id)'.current_state = EXECUTION ]_vars

\* C6: process_input with an id that is not in the registry raises (ValueError
\* is the code's ConversationNotFound) and leaves the registry as it was: no
\* conversation is created and none is modified.
C6_UnknownIdFails ==
    [][ ( /\ result'.op = "process_input"
          /\ result'.conversation_id \notin DOMAIN active_conversations )
            => /\ result'.raised = "ValueError"
               /\ active_conversations' = active_conversations ]_vars

\* the call failed while the registry held a conversation that has had a turn
C6_Witness ==
    /\ result.op = "process_input"
    /\ result.raised = "ValueError"
    /\ result.conversation_id \notin DOMAIN active_conversations
    /\ \E id \in DOMAIN active_conversations : Conversation(id).intent # None

\* C7 as claimed: end_conversation with an id that is not in the registry
\* raises ConversationNotFound.
C7_EndUnknownRaises ==
    ( /\ result.op = "end_conversation"
      /\ result.conversation_id \notin DOMAIN active_conversations )
        => result.raised = "ValueError"

\* C7 as amended: of the registry operations only process_input raises on an
\* unknown id; end_conversation with an id that is not in the registry raises
\* nothing, returns None and leaves the registry as it was.
C7_EndUnknownReturns ==
    [][ /\ ( /\ result'.op = "end_conversation"
             /\ result'.conversation_id \notin DOMAIN active_conversations )
               => /\ result'.raised = None
                  /\ result'.returned = {}
                  /\ active_conversations' = active_conversations
        /\ ( /\ result'.op = "process_input"
             /\ result'.conversation_id \notin DOMAIN active_conversations )
               => result'.raised = "ValueError" ]_vars

C7_Witness ==
    /\ result.op = "end_conversation"
    /\ result.conversation_id \notin DOMAIN active_conversations
    /\ result.raised = None
    /\ \E id \in DOMAIN active_conversations :
          Conversation(id).current_state # COMPLETED

\* C8: no call removes a key from a conversation's entities; the value of a
\* key changes only in a turn of that conversation whose payload supplies the
\* key, and a process_input call that returns has stored every value of its
\* payload.
C8_EntitiesNeverShrink ==
    [][ \A id \in DOMAIN active_conversations :
          LET before == Conversation(id).entities
              after == Conversation(id)'.entities
          IN /\ id \in DOMAIN active_conversations'
             /\ Keys(before) \subseteq Keys(after)
             /\ \A k \in Keys(before) :
                   Get(after, k) # Get(before, k)
                      => /\ LastTurn(id)'
                         /\ \E turn \in EntityTurns :
                               /\ turn.entities.ismap
                               /\ k \in Keys(turn.entities.items)
                               /\ Get(turn.entities.items, k) = Get(after, k)
             /\ \A turn \in EntityTurns :
                   ( /\ turn.entities.ismap
                     /\ process_input(id, turn.intent, turn.entities,
                                      turn.confidence) )
                      => \A k \in Keys(turn.entities.items) :
                            Get(after, k) = Get(turn.entities.items, k) ]_vars

\* a turn overwrote content and added memo_id behind it
C8_Witness ==
    \E id \in DOMAIN active_conversations :
        /\ LastTurn(id)
        /\ Len(Conversation(id).entities) = 2
        /\ Conversation(id).entities[1] = Item("content", StrValue("write report"))
        /\ Conversation(id).entities[2].key = "memo_id"

\* C9: once a conversation is Completed, no call changes its current_state.
C9_CompletedIsTerminal ==
    [][ \A id \in DOMAIN active_conversations :
          Conversation(id).current_state = COMPLETED
              => Conversation(id)'.current_state = COMPLETED ]_vars

\* C10: end_conversation on a known conversation sets current_state to
\* Completed and changes nothing else, so a second call, which finds the
\* conversation Completed, leaves the whole registry as the first call left it.
C10_EndIdempotent ==
    [][ ( /\ result'.op = "end_conversation"
          /\ result'.conversation_id \in DOMAIN active_conversations )
            => LET id == result'.conversation_id
               IN /\ active_conversations' =
                        [active_conversations EXCEPT ![id].current_state = COMPLETED]
                  /\ Conversation(id).current_state = COMPLETED
                        => active_conversations' = active_conversations ]_vars

\* end_conversation returned on a conversation that has had a turn and whose
\* updated_at is older than the call
C10_Witness ==
    \E id \in DOMAIN active_conversations :
        /\ result.op = "end_conversation"
        /\ result.conversation_id = id
        /\ Conversation(id).current_state = COMPLETED
        /\ Conversation(id).intent # None
        /\ Conversation(id).updated_at < now

\* C11: start_conversation(user_id) raises nothing and returns an id the
\* registry did not hold; the conversation stored under it, which is what
\* get_conversation returns next, has that user_id, current_state Parsing,
\* no entities, no intent and no interruption_reason, and every conversation
\* that was already in the registry is as it was.
C11_StartIsFresh ==
    [][ \A u \in UserIds :
          start_conversation(u, NotADict)
             => LET id == result'.conversation_id
                IN /\ result'.raised = None
                   /\ result'.returned = {id}
                   /\ id \notin DOMAIN active_conversations
                   /\ id \in DOMAIN active_conversations'
                   /\ active_conversations'[id].user_id = u
                   /\ active_conversations'[id].conversation_id = id
                   /\ active_conversations'[id].current_state = PARSING
                   /\ active_conversations'[id].entities = <<>>
                   /\ active_conversations'[id].intent = None
                   /\ active_conversations'[id].interruption_reason = None
                   /\ \A other \in DOMAIN active_conversations :
                         /\ other \in DOMAIN active_conversations'
                         /\ active_conversations'[other] = active_conversations[other] ]_vars

\* a second conversation was started beside one that has had a turn
C11_Witness ==
    /\ result.op = "start_conversation"
    /\ result.conversation_id \in DOMAIN active_conversations
    /\ Conversation(result.conversation_id).current_state = PARSING
    /\ Conversation(result.conversation_id).created_at = now
    /\ \E other \in DOMAIN active_conversations :
          /\ other # result.conversation_id
          /\ Conversation(other).intent # None

\* C12: in every reachable state, a conversation whose interruption_reason is
\* set is Interrupted: a later turn that ends in Confirmation or Execution, or
\* end_conversation, leaves interruption_reason null.
C12_ReasonOnlyWhileInterrupted ==
    \A id \in DOMAIN active_conversations :
        Conversation(id).interruption_reason # None
            => Conversation(id).current_state = INTERRUPTED

ProcessingErrorReasons == {"processing_error: AttributeError"}

\* C14: a process_input call for a conversation the registry holds raises
\* nothing; when an exception came up while it processed the turn, the
\* conversation is Interrupted with an interruption_reason that starts with
\* "processing_error: ".
C14_TurnErrorsContained ==
    \A id \in DOMAIN active_conversations :
        ( /\ result.op = "process_input"
          /\ result.conversation_id = id )
            => /\ result.raised = None
               /\ is_interruption_raises(Conversation(id).intent)
                     => /\ Conversation(id).current_state = INTERRUPTED
                        /\ Conversation(id).interruption_reason
                              \in ProcessingErrorReasons

\* C15: a process_input call for a known conversation whose entities
\* argument is not a map raises nothing, leaves the stored entities as they
\* were and resolves the turn as it would with an empty map.
C15_NonMapEntitiesCoerced ==
    [][ \A id \in DOMAIN active_conversations, turn \in Turns :
          ( /\ ~turn.entities.ismap
            /\ process_input(id, turn.intent, turn.entities, turn.confidence) )
             => /\ result'.raised = None
                /\ active_conversations'[id].entities = Conversation(id).entities
                /\ active_conversations'[id] =
                      ProcessContext(Conversation(id), turn.intent, Dict(<<>>),
                                     turn.confidence, now') ]_vars

\* the business actions the last request to the voice endpoint performed
Performed ==
    IF result.raised # None THEN <<>>
    ELSE LET response == CHOOSE r \in result.returned : TRUE
         IN IF response.success THEN response.business ELSE <<>>

\* C16: after every request to the stateful voice endpoint, the dispatcher
\* has performed exactly one business action when the conversation of the
\* turn is in Execution, and none when it is in another state or is absent.
C16_DispatchOnExecution ==
    result.op = "process_voice_command_stateful"
        => LET id == result.conversation_id
           IN IF /\ id \in DOMAIN active_conversations
                 /\ Conversation(id).current_state = EXECUTION
              THEN Len(Performed) = 1
              ELSE Performed = <<>>

\* C17: under the logical clock, updated_at is never before created_at,
\* created_at never changes, and every call that changes a conversation
\* (each outcome of process_input, its error path included, and
\* end_conversation when it changes the state) sets updated_at to a later
\* value than it had.
C17_TimestampsAdvance ==
    [][ /\ \A id \in DOMAIN active_conversations' :
              active_conversations'[id].updated_at
                  >= active_conversations'[id].created_at
        /\ \A id \in DOMAIN active_conversations :
              /\ active_conversations'[id].created_at = Conversation(id).created_at
              /\ active_conversations'[id] # Conversation(id)
                    => active_conversations'[id].updated_at
                           > Conversation(id).updated_at ]_vars

\* C18: the confidence _handle_confirmation_response returns is
\* min(c + 0.1, 1.0) when the lowercased intent is a token of the
\* confirm/reject vocabulary and c otherwise, within [0, 1] either way; the
\* confidence process_with_context returns and the confidence stored in
\* every conversation are within [0, 1] too.
C18_ConfidenceInRange ==
    /\ result.op = "_handle_confirmation_response" =>
          \A call \in result.returned :
              LET c == call.given.confidence
              IN /\ call.mapped.confidence =
                       IF lower(call.given.intent) \in DOMAIN confirmation_mapping
                       THEN (IF c + CONFIDENCE_BOOST <= MAX_CONFIDENCE
                             THEN c + CONFIDENCE_BOOST ELSE MAX_CONFIDENCE)
                       ELSE c
                 /\ call.mapped.confidence \in 0..MAX_CONFIDENCE
    /\ result.op = "process_with_context" =>
          \A r \in result.returned : r.confidence \in 0..MAX_CONFIDENCE
    /\ \A id \in DOMAIN active_conversations :
          Conversation(id).confidence \in 0..MAX_CONFIDENCE

\* an affirmative token at 0.95 came back as confirm at the cap, in a
\* registry that stores a confidence
C18_Witness ==
    /\ result.op = "_handle_confirmation_response"
    /\ \E call \in result.returned :
          /\ call.given.intent = "YES"
          /\ call.given.confidence + CONFIDENCE_BOOST > MAX_CONFIDENCE
          /\ call.given.confidence < MAX_CONFIDENCE
          /\ call.mapped.intent = "confirm"
          /\ call.mapped.confidence = MAX_CONFIDENCE
    /\ \E id \in DOMAIN active_conversations :
          Conversation(id).confidence = MAX_CONFIDENCE

\* C19: the registry holds one conversation per id, stored under its own
\* id, and never loses one: no call removes an entry or puts another
\* conversation (another user_id, another created_at) in its place;
\* start_conversation adds exactly one entry, under an id the registry did
\* not hold, which it returns, and the only other call that adds an entry is
\* the process_with_context that starts its conversation; get_conversation
\* on an ended conversation returns it, Completed.
C19_RegistryKeepsEntries ==
    [][ LET before == DOMAIN active_conversations
            after == DOMAIN active_conversations'
        IN /\ before \subseteq after
           /\ \A id \in after : active_conversations'[id].conversation_id = id
           /\ \A id \in before :
                 /\ active_conversations'[id].user_id = Conversation(id).user_id
                 /\ active_conversations'[id].created_at = Conversation(id).created_at
           /\ result'.op = "start_conversation"
                 => /\ Cardinality(after \ before) = 1
                    /\ result'.returned = after \ before
           /\ after # before
                 => /\ result'.op \in {"start_conversation", "process_with_context"}
                    /\ after \ before = {result'.conversation_id}
           /\ ( /\ result'.op = "get_conversation"
                /\ result'.conversation_id \in before
                /\ Conversation(result'.conversation_id).current_state = COMPLETED )
                 => /\ result'.returned = {result'.conversation_id}
                    /\ active_conversations' = active_conversations ]_vars

\* get_conversation returned an ended conversation
C19_Witness ==
    /\ result.op = "get_conversation"
    /\ \E id \in DOMAIN active_conversations :
          /\ result.returned = {id}
          /\ Conversation(id).current_state = COMPLETED

\* C20: get_active_conversations returns exactly the conversations of the
\* registry whose current_state is not Completed (an Interrupted one is
\* among them, an ended one is not) and changes no conversation.
C20_ActiveAreNotCompleted ==
    [][ result'.op = "get_active_conversations"
          => /\ result'.returned =
                   DOMAIN active_conversations \
                      {id \in DOMAIN active_conversations :
                          Conversation(id).current_state = COMPLETED}
             /\ \A id \in DOMAIN active_conversations :
                   /\ Conversation(id).current_state = INTERRUPTED
                         => id \in result'.returned
                   /\ Conversation(id).current_state = COMPLETED
                         => id \notin result'.returned
             /\ active_conversations' = active_conversations ]_vars

\* get_active_conversations returned an Interrupted conversation
C20_Witness ==
    /\ result.op = "get_active_conversations"
    /\ \E id \in result.returned :
          Conversation(id).current_state = INTERRUPTED

\* C21: the result process_with_context returns for a turn carries the
\* mapped intent and the boosted confidence exactly when the conversation
\* was in Confirmation on entering the turn; a turn that enters from any
\* other state, or that starts its conversation, comes back with the intent
\* and the confidence it was given, whatever state it resolves to.
C21_MapperOnEnteringConfirmation ==
    [][ ( /\ result'.op = "process_with_context"
          /\ result'.raised = None
          /\ result'.conversation_id \in DOMAIN active_conversations' )
            => LET id == result'.conversation_id
                   given == [intent |-> active_conversations'[id].intent,
                             confidence |-> active_conversations'[id].confidence]
                   entered == IF id \in DOMAIN active_conversations
                              THEN Conversation(id).current_state
                              ELSE PARSING
               IN \A r \in result'.returned :
                     IF entered = CONFIRMATION
                     THEN /\ r.intent = handle_confirmation_response(given).intent
                          /\ r.confidence =
                                handle_confirmation_response(given).confidence
                     ELSE /\ r.intent = given.intent
                          /\ r.confidence = given.confidence ]_vars

\* C22: the registry calls are atomic steps, and in every interleaving of
\* them each call changes at most the conversation of its own id; the record
\* it leaves there is determined by the record it found there and the call
\* (start_conversation: a new context; process_input: the turn resolved on
\* the record, or the intent alone when the merge fails; end_conversation:
\* the record, Completed), so that every conversation is what its own calls,
\* in the order they arrived, make of it.
C22_SessionsIsolated ==
    [][ LET id == result'.conversation_id
        IN /\ \A other \in DOMAIN active_conversations \ {id} :
                 active_conversations'[other] = Conversation(other)
           /\ ( result'.op = "start_conversation" )
                 => \E u \in UserIds :
                       active_conversations'[id] =
                          ConversationContext(u, id, PARSING, <<>>, now')
           /\ ( result'.op = "process_input" /\ id \in DOMAIN active_conversations )
                 => \E turn \in Turns :
                       active_conversations'[id] =
                          IF turn.entities.ismap
                          THEN ProcessContext(Conversation(id), turn.intent,
                                              turn.entities, turn.confidence, now')
                          ELSE [Conversation(id) EXCEPT !.intent = turn.intent]
           /\ ( result'.op = "end_conversation" /\ id \in DOMAIN active_conversations )
                 => active_conversations'[id] = EndContext(Conversation(id)) ]_vars

\* a turn of the first conversation arrived after the second was started:
\* the second is as start_conversation left it
C22_Witness ==
    \E id, other \in DOMAIN active_conversations :
        /\ result.op = "process_input"
        /\ result.conversation_id = id
        /\ Conversation(id).user_id = Conversation(other).user_id
        /\ Conversation(id).created_at < Conversation(other).created_at
        /\ Conversation(id).updated_at > Conversation(other).created_at
        /\ Conversation(other).updated_at = Conversation(other).created_at
        /\ Conversation(other).current_state = PARSING

\* C23: the state a turn comes to rest in depends on its intent and its
\* confidence alone: after a process_input call that returned, the same
\* intent and confidence, with any map of entities, resolved on any
\* conversation of the registry (whatever its current_state, its entities
\* and its earlier turns) gives the current_state this call gave, and when
\* that is Interrupted the same interruption_reason.
C23_RestingStateOfTurnAlone ==
    \A id \in DOMAIN active_conversations :
        ( /\ result.op = "process_input"
          /\ result.raised = None
          /\ result.conversation_id = id )
            => \A other \in DOMAIN active_conversations :
                  \A e \in {p \in EntityPayloads : p.ismap} :
                     LET again == ProcessContext(Conversation(other),
                                                 Conversation(id).intent, e,
                                                 Conversation(id).confidence, now)
                     IN /\ again.current_state = Conversation(id).current_state
                        /\ again.current_state = INTERRUPTED
                              => again.interruption_reason =
                                    Conversation(id).interruption_reason

\* a turn was resolved beside a conversation in another state, with other
\* entities
C23_Witness ==
    \E id, other \in DOMAIN active_conversations :
        /\ result.op = "process_input"
        /\ result.raised = None
        /\ result.conversation_id = id
        /\ Conversation(id).current_state = EXECUTION
        /\ Conversation(id).entities # <<>>
        /\ Conversation(other).current_state = PARSING
        /\ Conversation(other).entities = <<>>

C25_UnknownIdSurfaces ==
    ( /\ result.op = "process_with_context"
      /\ result.conversation_id \notin DOMAIN active_conversations )
        => /\ result.raised = "ValueError"
           /\ result.returned = {}

\* C26: when a conversation is in Confirmation, awaiting the reply to the
\* intent X recorded in it, and process_input returns from a confirm/reject
\* reply turn, X is still recorded in the conversation: as its intent, or in
\* its previous_context.
C26_PendingActionKept ==
    [][ \A id \in DOMAIN active_conversations :
          ( /\ Conversation(id).current_state = CONFIRMATION
            /\ result'.op = "process_input"
            /\ result'.raised = None
            /\ result'.conversation_id = id
            /\ active_conversations'[id].intent # NotAString
            /\ lower(active_conversations'[id].intent)
                  \in DOMAIN confirmation_mapping )
             => \/ active_conversations'[id].intent = Conversation(id).intent
                \/ active_conversations'[id].previous_context # None ]_vars

\* the states a listed transition leads to: a state's value, or for "end"
\* the state of an ended conversation
Advertised(current_state) ==
    {IF target = "end" THEN COMPLETED ELSE target :
        target \in get_possible_transitions(current_state)}

\* C27: every change of a conversation's current_state that a call makes
\* leads to a state that _get_possible_transitions lists for the state it
\* leaves.
C27_TransitionsAdvertised ==
    [][ \A id \in DOMAIN active_conversations :
          active_conversations'[id].current_state # Conversation(id).current_state
             => active_conversations'[id].current_state
                   \in Advertised(Conversation(id).current_state) ]_vars

\* what the claim gives for one marker: its first occurrence replaced
RECURSIVE FirstOccurrencesResolved(_, _, _)
FirstOccurrencesResolved(k, resolved_text, value) ==
    IF k > Len(reference_patterns) THEN resolved_text
    ELSE FirstOccurrencesResolved(
             k + 1, replace_first(resolved_text, reference_patterns[k], value),
             value)

\* C28: resolve_references returns for every text and context; with no
\* context, no entities or no str among the entity values the output is the
\* input, and otherwise each marker found has its first occurrence, and only
\* that one, replaced by the first str value of the entities in insertion
\* order, the rest of the text staying as it was.
C28_FirstOccurrenceOnly ==
    result.op = "resolve_references" =>
        /\ result.raised = None
        /\ \A call \in result.returned :
              LET entities == IF call.context = {} THEN <<>>
                              ELSE (CHOOSE c \in call.context : TRUE).entities
                  value == first_str_value(entities)
              IN IF value = <<>>
                 THEN call.resolved = call.text
                 ELSE call.resolved =
                         FirstOccurrencesResolved(1, call.text, value[1])

\* C29: _extract_completion_entities raises for no text, and the
\* validation-response step, which calls it, raises for no result and
\* context.
C29_CompletionNeverRaises ==
    result.op \in {"_extract_completion_entities", "_handle_validation_response"}
        => result.raised = None

=============================================================================
